---- MODULE Spec2Model ----
(***************************************************************************)
(* A model of clauf's compiler front end (src/src/compiler.cpp): the lexy   *)
(* grammar of a C subset whose value callbacks build the AST, resolve       *)
(* declarators, keep the per-function symbol table and record semantic      *)
(* failures in compiler_state::errored, and clauf::compile, which turns     *)
(* the parse result and the error flag into an optional AST.                *)
(*                                                                          *)
(* The input is a sequence of lexical units.  A unit is a word (a maximal   *)
(* run of identifier or digit characters: a name, a keyword, an integer     *)
(* literal), one punctuation character, or " " (a run of white space or a   *)
(* comment).  Two words are never adjacent in an input: adjacent words are  *)
(* one word.  Multi-character operators are adjacent punctuation units, so  *)
(* that "<" "<" is the token << and "<" " " "<" is not.                     *)
(***************************************************************************)
EXTENDS Naturals, Sequences, FiniteSets

\* ------------------------------------------------------------------ lexing

\* kw_builtin_types: the type keywords.
kw_builtin_types == {"int"}

\* kw_builtin_stmts: the builtin statement keywords and their tags.
kw_builtin_stmts == {"__clauf_print", "__clauf_assert"}

\* The punctuation characters of the grammar.
Punctuation ==
    {"(", ")", "{", "}", ";", ",", "+", "-", "*", "/", "%", "<", ">", "=",
     "!", "~", "&", "^", "|", "?", ":"}

\* The integer literals of the model's inputs (decimal words).
IntegerWords == {"0", "1", "2", "3"}

\* translation_unit::whitespace: what lexy skips after every token.
whitespace == {" "}

\* dsl::identifier: a word that does not start with a digit.
identifier(u) ==
    u # "" /\ u \notin Punctuation /\ u \notin whitespace /\ u \notin IntegerWords

\* The unit at position p, "" past the end of the input.
At(s, p) == IF p \in 1..Len(s) THEN s[p] ELSE ""

\* Automatic white space skipping: the first position >= p that holds no
\* white space.
RECURSIVE SkipWs(_, _)
SkipWs(s, p) == IF At(s, p) \in whitespace THEN SkipWs(s, p + 1) ELSE p

\* A literal (a sequence of punctuation units) matches at p with no white
\* space inside it.
RECURSIVE LitAt(_, _, _)
LitAt(s, p, lit) ==
    IF lit = <<>> THEN TRUE
    ELSE At(s, p) = Head(lit) /\ LitAt(s, p + 1, Tail(lit))

\* ------------------------------------------------------------- declarators

\* clauf::name_declarator and clauf::function_declarator, nodes of decl_tree.
name_declarator(n) == [kind |-> "name", name |-> n, child |-> <<>>]
function_declarator(c) == [kind |-> "function", name |-> "", child |-> <<c>>]

DeclFail(p) == [ok |-> FALSE, pos |-> p, tree |-> <<>>]
DeclOk(p, t) == [ok |-> TRUE, pos |-> p, tree |-> <<t>>]

\* grammar::name as a branch: an identifier that is no reserved keyword.
name(u) == identifier(u) /\ u \notin kw_builtin_types /\ u \notin kw_builtin_stmts

\* grammar::declarator::function_declarator: the postfix operator "(" >> ")",
\* applied as often as it matches; an opening parenthesis commits to it.
RECURSIVE declarator_postfix(_, _)
declarator_postfix(s, r) ==
    IF At(s, r.pos) # "(" THEN r
    ELSE LET q == SkipWs(s, r.pos + 1)
         IN IF At(s, q) # ")" THEN DeclFail(q)
            ELSE declarator_postfix(s,
                     DeclOk(SkipWs(s, q + 1), function_declarator(r.tree[1])))

\* grammar::declarator: atom := name | "(" declarator ")", then the postfix
\* operators.  The parenthesized declarator is passed through unchanged.
RECURSIVE declarator(_, _)
declarator(s, p) ==
    LET atom ==
            IF name(At(s, p))
            THEN DeclOk(SkipWs(s, p + 1), name_declarator(At(s, p)))
            ELSE IF At(s, p) = "("
            THEN LET inner == declarator(s, SkipWs(s, p + 1))
                 IN IF ~inner.ok THEN inner
                    ELSE IF At(s, inner.pos) # ")" THEN DeclFail(inner.pos)
                    ELSE DeclOk(SkipWs(s, inner.pos + 1), inner.tree[1])
            ELSE DeclFail(p)
    IN IF atom.ok THEN declarator_postfix(s, atom) ELSE atom

\* grammar::declarator_list: dsl::list(declarator, sep(comma)).
RECURSIVE declarator_list(_, _)
declarator_list(s, p) ==
    LET d == declarator(s, p)
    IN IF ~d.ok THEN [ok |-> FALSE, pos |-> d.pos, decls |-> <<>>]
       ELSE IF At(s, d.pos) # "," THEN [ok |-> TRUE, pos |-> d.pos, decls |-> d.tree]
       ELSE LET rest == declarator_list(s, SkipWs(s, d.pos + 1))
            IN [ok |-> rest.ok, pos |-> rest.pos,
                decls |-> IF rest.ok THEN d.tree \o rest.decls ELSE <<>>]

\* ------------------------------------------------------------- symbol table

\* dryad::symbol_table<ast_symbol, decl*>: a map from the bound symbols to
\* declarations.  A declaration is known by its allocation number; 0 is
\* nullptr.
EmptyTable == [n \in {} |-> 0]

\* symbol_table::lookup: the bound declaration, or nullptr.
lookup(table, n) == IF n \in DOMAIN table THEN table[n] ELSE 0

\* insert_or_shadow as it would be if a binding n already has were kept.
insert_or_shadow_KeepFirst(table, n, d) ==
    [table |-> [m \in DOMAIN table \cup {n} |->
                   IF m \in DOMAIN table THEN table[m] ELSE d],
     shadowed |-> lookup(table, n)]

\* symbol_table::insert_or_shadow: binds n to d, replacing a binding n
\* already has, and returns the replaced declaration (nullptr when new).
insert_or_shadow(table, n, d) ==
    [table |-> [m \in DOMAIN table \cup {n} |-> IF m = n THEN d ELSE table[m]],
     shadowed |-> lookup(table, n)]

\* ------------------------------------------------------------- expressions

\* The operations of grammar::expr, each with the operation that is its
\* operand ("using operand = ..."); the chain ends in the atom.
operation == "comma"

operand ==
    [comma |-> "assignment", assignment |-> "conditional", conditional |-> "lor",
     lor |-> "land", land |-> "bor", bor |-> "bxor", bxor |-> "band",
     band |-> "equality", equality |-> "relational", relational |-> "shift",
     shift |-> "additive", additive |-> "multiplicative",
     multiplicative |-> "unary", unary |-> "atom"]

\* op_kind as it would be with assignment derived from infix_op_left.
op_kind_AssignmentLeft ==
    [comma |-> "infix_op_right", assignment |-> "infix_op_left",
     conditional |-> "infix_op_right", lor |-> "infix_op_left",
     land |-> "infix_op_left", bor |-> "infix_op_left", bxor |-> "infix_op_left",
     band |-> "infix_op_left", equality |-> "infix_op_left",
     relational |-> "infix_op_left", shift |-> "infix_op_left",
     additive |-> "infix_op_left", multiplicative |-> "infix_op_left",
     unary |-> "prefix_op"]

\* The base of each operation: dsl::prefix_op, infix_op_left or infix_op_right.
op_kind ==
    [comma |-> "infix_op_right", assignment |-> "infix_op_right",
     conditional |-> "infix_op_right", lor |-> "infix_op_left",
     land |-> "infix_op_left", bor |-> "infix_op_left", bxor |-> "infix_op_left",
     band |-> "infix_op_left", equality |-> "infix_op_left",
     relational |-> "infix_op_left", shift |-> "infix_op_left",
     additive |-> "infix_op_left", multiplicative |-> "infix_op_left",
     unary |-> "prefix_op"]

Op(l, t, lit, nf) == [level |-> l, tag |-> t, lit |-> lit, not_followed_by |-> nf]

\* The operators ("static constexpr auto op = ...") of every operation: the
\* tag, the literal, and the characters dsl::not_followed_by excludes.
operators ==
    { Op("unary", "plus", <<"+">>, {}), Op("unary", "neg", <<"-">>, {}),
      Op("unary", "bnot", <<"~">>, {}), Op("unary", "lnot", <<"!">>, {}),
      Op("multiplicative", "mul", <<"*">>, {}),
      Op("multiplicative", "div", <<"/">>, {}),
      Op("multiplicative", "rem", <<"%">>, {}),
      Op("additive", "add", <<"+">>, {}), Op("additive", "sub", <<"-">>, {}),
      Op("shift", "shl", <<"<", "<">>, {}), Op("shift", "shr", <<">", ">">>, {}),
      Op("relational", "lt", <<"<">>, {"<"}),
      Op("relational", "le", <<"<", "=">>, {}),
      Op("relational", "gt", <<">">>, {">"}),
      Op("relational", "ge", <<">", "=">>, {}),
      Op("equality", "eq", <<"=", "=">>, {}),
      Op("equality", "ne", <<"!", "=">>, {}),
      Op("band", "band", <<"&">>, {}), Op("bxor", "bxor", <<"^">>, {}),
      Op("bor", "bor", <<"|">>, {}),
      Op("land", "land", <<"&", "&">>, {}), Op("lor", "lor", <<"|", "|">>, {}),
      Op("conditional", "conditional", <<"?">>, {}),
      Op("assignment", "none", <<"=">>, {}),
      Op("comma", "comma", <<",">>, {}) }

NoOp == Op("", "", <<>>, {})

prefix_ops == {o \in operators : op_kind[o.level] = "prefix_op"}
infix_ops == {o \in operators : op_kind[o.level] # "prefix_op"}

\* An operator matches at p when its literal does and the character after it
\* is none of those it must not be followed by.
OpMatches(s, p, o) ==
    LitAt(s, p, o.lit) /\ At(s, p + Len(o.lit)) \notin o.not_followed_by

\* parse_operator as it would be if the shortest matching operator won.
parse_operator_Shortest(s, p, candidates) ==
    LET ms == {o \in candidates : OpMatches(s, p, o)}
    IN IF ms = {} THEN NoOp
       ELSE CHOOSE o \in ms : \A o2 \in ms : Len(o.lit) <= Len(o2.lit)

\* The operator parsed at p among the candidates: the longest one that
\* matches (the operators of an expression are matched as one literal set),
\* NoOp when none does.
parse_operator(s, p, candidates) ==
    LET ms == {o \in candidates : OpMatches(s, p, o)}
    IN IF ms = {} THEN NoOp
       ELSE CHOOSE o \in ms : \A o2 \in ms : Len(o2.lit) <= Len(o.lit)

\* The depth of an operation in the operand chain: 1 for expr::operation,
\* one more for the operand of an operation.
RECURSIVE OperationDepth(_)
OperationDepth(l) ==
    IF l = operation THEN 1
    ELSE 1 + OperationDepth(CHOOSE m \in DOMAIN operand : operand[m] = l)

\* The binding powers of an operator: an operation deeper in the chain binds
\* tighter; the right operand of a left-associative operator must bind
\* tighter than the operator, that of a right-associative one as tight.
lhs_binding_power(o) ==
    IF op_kind[o.level] = "infix_op_right" THEN 2 * OperationDepth(o.level) + 1
    ELSE 2 * OperationDepth(o.level)

rhs_binding_power(o) ==
    IF op_kind[o.level] = "infix_op_left" THEN 2 * OperationDepth(o.level) + 1
    ELSE 2 * OperationDepth(o.level)

\* The expression nodes of the AST.  at is the source position of the node's
\* token, decl the declaration an identifier_expr refers to (0: nullptr).
ExprNode(k, o, at, d, kids) ==
    [kind |-> k, op |-> o, at |-> at, decl |-> d, kids |-> kids]

\* The node kind expr::value builds for an operator, chosen by the type of
\* its tag.
node_kind(o) ==
    IF o.level = "unary" THEN "unary_expr"
    ELSE IF o.level \in {"land", "lor", "comma"} THEN "sequenced_binary_expr"
    ELSE IF o.level = "conditional" THEN "conditional_expr"
    ELSE IF o.level = "assignment" THEN "assignment_expr"
    ELSE "binary_expr"

\* The result of parsing an expression: unknown lists the names whose lookup
\* failed (each reported as "unknown identifier"), in the order of the calls,
\* also when the parse fails after them.
ExprFail(p, u) == [ok |-> FALSE, pos |-> p, tree |-> <<>>, unknown |-> u]
ExprOk(p, t, u) == [ok |-> TRUE, pos |-> p, tree |-> <<t>>, unknown |-> u]

\* identifier_expr::value as it would be if a failed lookup were not reported.
identifier_expr_Silent(table, n, p) ==
    [node |-> ExprNode("identifier_expr", n, p, lookup(table, n), <<>>),
     unknown |-> <<>>]

\* identifier_expr::value: looks the name up in local_symbols and builds the
\* reference node whether or not it is bound.
identifier_expr(table, n, p) ==
    [node |-> ExprNode("identifier_expr", n, p, lookup(table, n), <<>>),
     unknown |-> IF lookup(table, n) = 0 THEN <<n>> ELSE <<>>]

RECURSIVE parse_expression(_, _, _, _)
RECURSIVE parse_lhs(_, _, _)
RECURSIVE parse_infix(_, _, _, _)

\* The left operand: a prefix operator and its operand, or expr::atom :=
\* "(" expr ")" | identifier_expr | integer_constant_expr.
parse_lhs(s, p, table) ==
    LET o == parse_operator(s, p, prefix_ops)
    IN IF o # NoOp
       THEN LET r == parse_expression(s, SkipWs(s, p + Len(o.lit)), table,
                                      rhs_binding_power(o))
            IN IF ~r.ok THEN r
               ELSE ExprOk(r.pos, ExprNode(node_kind(o), o.tag, p, 0, r.tree),
                           r.unknown)
       ELSE IF At(s, p) = "("
       THEN LET r == parse_expression(s, SkipWs(s, p + 1), table, 0)
            IN IF ~r.ok THEN r
               ELSE IF At(s, r.pos) # ")" THEN ExprFail(r.pos, r.unknown)
               ELSE ExprOk(SkipWs(s, r.pos + 1), r.tree[1], r.unknown)
       ELSE IF name(At(s, p))
       THEN LET i == identifier_expr(table, At(s, p), p)
            IN ExprOk(SkipWs(s, p + 1), i.node, i.unknown)
       ELSE IF At(s, p) \in IntegerWords
       THEN ExprOk(SkipWs(s, p + 1),
                   ExprNode("integer_constant_expr", At(s, p), p, 0, <<>>), <<>>)
       ELSE ExprFail(p, <<>>)

\* The operators after a left operand l: an infix operator that binds at
\* least as tight as min is taken with its right operand, and the result is
\* the left operand of what follows; any other is left for the caller.
parse_infix(s, l, table, min) ==
    LET o == parse_operator(s, l.pos, infix_ops)
        q == SkipWs(s, l.pos + Len(o.lit))
    IN IF o = NoOp \/ lhs_binding_power(o) < min THEN l
       ELSE IF o.level = "conditional"
       THEN LET m == parse_expression(s, q, table, 0)
            IN IF ~m.ok THEN ExprFail(m.pos, l.unknown \o m.unknown)
               ELSE IF At(s, m.pos) # ":"
               THEN ExprFail(m.pos, l.unknown \o m.unknown)
               ELSE LET r == parse_expression(s, SkipWs(s, m.pos + 1), table,
                                              rhs_binding_power(o))
                        u == l.unknown \o m.unknown \o r.unknown
                    IN IF ~r.ok THEN ExprFail(r.pos, u)
                       ELSE parse_infix(s,
                                ExprOk(r.pos,
                                       ExprNode(node_kind(o), o.tag, l.pos, 0,
                                                l.tree \o m.tree \o r.tree), u),
                                table, min)
       ELSE LET r == parse_expression(s, q, table, rhs_binding_power(o))
                u == l.unknown \o r.unknown
            IN IF ~r.ok THEN ExprFail(r.pos, u)
               ELSE parse_infix(s,
                        ExprOk(r.pos,
                               ExprNode(node_kind(o), o.tag, l.pos, 0,
                                        l.tree \o r.tree), u),
                        table, min)

\* lexy::expression_production: an expression whose operators bind at least
\* as tight as min.
parse_expression(s, p, table, min) ==
    LET l == parse_lhs(s, p, table)
    IN IF ~l.ok THEN l ELSE parse_infix(s, l, table, min)

\* grammar::expr, parsed from its operation (comma) down.
expr(s, p, table) == parse_expression(s, p, table, 0)

\* -------------------------------------------------------------------- state

VARIABLES
    input,          \* the source buffer clauf::compile is given
    pos,            \* the reader's position, after the white space skipped
    pc,             \* where lexy::parse is: "parsed" and "syntax_error" end it
    blocks,         \* the statement lists of the open block_stmts, innermost last
    fn_declarator,  \* the declarator of the function definition being parsed
    functions,      \* the function_decls of translation_unit's list so far
    local_symbols,  \* compiler_state::local_symbols
    errored,        \* compiler_state::errored
    diag,           \* the messages written to compiler_state::diag, in order
    next_decl,      \* the allocation number of the next declaration node
    last_expr,      \* the last expression built by grammar::expr, and its place
    returned,       \* compile's return value: "none" before it returns
    root            \* the root installed in the returned AST's tree

vars == <<input, pos, pc, blocks, fn_declarator, functions, local_symbols,
          errored, diag, next_decl, last_expr, returned, root>>

\* ------------------------------------------------------------------- inputs

MaxItems == 3
MaxHeadItems == 1
MaxOps == 2
MaxUnits == 4

RECURSIVE Concat(_)
Concat(ss) == IF ss = <<>> THEN <<>> ELSE Head(ss) \o Concat(Tail(ss))

SeqsUpTo(S, n) == UNION {[1..k -> S] : k \in 0..n}

\* The function heads of the inputs: a function, a parenthesized function
\* name, a name that is no function, a function returning a function.
ValidHeads == { <<"int", " ", "f", "(", ")", " ">> }

OtherHeads ==
    { <<"int", " ", "(", "f", ")", "(", ")">>,
      <<"int", " ", "x", " ">>,
      <<"int", " ", "f", "(", ")", "(", ")">> }

\* The items of a function body in the inputs: statements, braces, and the
\* end of one function with the head of the next.
Items ==
    { <<"int", " ", "a", ";">>,
      <<"int", " ", "b", ",", "(", "b", ")", ";">>,
      <<"int", " ", "g", "(", ")", ";">>,
      <<"int", " ", "a", ",", "g", "(", ")", "(", ")", ";">>,
      <<"a", ";">>,
      <<"1", "=", "2", ";">>,
      <<"(", "a", "+", "b", ")", "=", "1", ";">>,
      <<"__clauf_print", " ", "a", ";">>,
      <<"{">>,
      <<"}">>,
      <<"}", "int", " ", "g", "(", ")", "{">> }

Function(h, items) == h \o <<"{">> \o Concat(items) \o <<"}">>

ItemPrograms ==
    { Function(h, b) : h \in ValidHeads, b \in SeqsUpTo(Items, MaxItems) }
    \cup { Function(h, b) : h \in OtherHeads, b \in SeqsUpTo(Items, MaxHeadItems) }

\* Chains of operands and infix operators: the operands are fixed by their
\* place, the operators range over all of grammar::expr's; in the second
\* variant the first operand has a prefix operator and the second one is a
\* parenthesized expression.
InfixLits ==
    { IF o.level = "conditional" THEN <<"?", "2", ":">> ELSE o.lit : o \in infix_ops }

ChainOperand(i, v) ==
    IF v = 1 /\ i = 0 THEN <<"-", "a">>
    ELSE IF v = 1 /\ i = 1 THEN <<"(", "b", ",", "1", ")">>
    ELSE <<<<"a">>, <<"b">>, <<"1">>, <<"c">>, <<"3">>>>[(i % 5) + 1]

RECURSIVE ChainFrom(_, _, _)
ChainFrom(ops, i, v) ==
    IF ops = <<>> THEN <<>>
    ELSE Head(ops) \o ChainOperand(i, v) \o ChainFrom(Tail(ops), i + 1, v)

Chains ==
    { ChainOperand(0, v) \o ChainFrom(ops, 1, v) :
          ops \in SeqsUpTo(InfixLits, MaxOps), v \in {0, 1} }

\* Arbitrary unit sequences over the characters of the relational, shift and
\* assignment operators, with no two words adjacent.
ExprUnits == {"a", "1", "<", ">", "=", " "}

IsWord(u) == u # "" /\ u \notin Punctuation /\ u \notin whitespace

UnitSeqs ==
    { e \in SeqsUpTo(ExprUnits, MaxUnits) :
          \A i \in 1..(Len(e) - 1) : ~(IsWord(e[i]) /\ IsWord(e[i + 1])) }

ExprPrograms ==
    { <<"int", " ", "f", "(", ")", "{">> \o e \o <<";", "}">> :
          e \in Chains \cup UnitSeqs }

Programs == ItemPrograms \cup ExprPrograms \cup {<<>>, <<" ">>}

\* ------------------------------------------------------------------ AST

variable_decl(n, id) == [kind |-> "variable_decl", name |-> n, id |-> id, body |-> <<>>]
function_decl(n, id, body) ==
    [kind |-> "function_decl", name |-> n, id |-> id, body |-> <<body>>]

Stmt(k, b, e, d, ss) ==
    [kind |-> k, builtin |-> b, expr |-> e, decls |-> d, stmts |-> ss]
decl_stmt(decls) == Stmt("decl_stmt", "", <<>>, decls, <<>>)
expr_stmt(e) == Stmt("expr_stmt", "", <<e>>, <<>>, <<>>)
builtin_stmt(b, e) == Stmt("builtin_stmt", b, <<e>>, <<>>, <<>>)
block_stmt(ss) == Stmt("block_stmt", "", <<>>, <<>>, ss)

translation_unit(decls) == [kind |-> "translation_unit", decls |-> decls]

\* The message written for each name whose lookup failed.
UnknownDiag(names) ==
    [i \in 1..Len(names) |-> [msg |-> "unknown identifier", name |-> names[i]]]

\* The innermost open block_stmt gets one more statement.
AppendStmt(bs, st) == [bs EXCEPT ![Len(bs)] = Append(@, st)]

\* ------------------------------------------------------------------ actions

Init ==
    /\ input \in Programs
    /\ pos = SkipWs(input, 1)
    /\ pc = "translation_unit"
    /\ blocks = <<>>
    /\ fn_declarator = <<>>
    /\ functions = <<>>
    /\ local_symbols = EmptyTable
    /\ errored = FALSE
    /\ diag = <<>>
    /\ next_decl = 1
    /\ last_expr = <<>>
    /\ returned = "none"
    /\ root = <<>>

\* function_start as it would be if the symbol table were not reset.
function_start_Keep(table) == table

\* function_definition::function_start: the dsl::effect between the
\* declarator and the body.
function_start(table) == EmptyTable

\* function_definition::rule up to the body: the type specifier, the
\* declarator, then function_start.  translation_unit's list parses its first
\* item unconditionally and every later one unless the input has ended.
FunctionDefinitionStart ==
    /\ pc = "translation_unit"
    /\ ~(pos > Len(input) /\ functions # <<>>)
    /\ LET d == declarator(input, SkipWs(input, pos + 1))
       IN IF At(input, pos) \in kw_builtin_types /\ d.ok
          THEN /\ fn_declarator' = d.tree
               /\ local_symbols' = function_start(local_symbols)
               /\ pos' = d.pos
               /\ pc' = "function_body"
          ELSE /\ pc' = "syntax_error"
               /\ UNCHANGED <<fn_declarator, local_symbols, pos>>
    /\ UNCHANGED <<input, blocks, functions, errored, diag, next_decl, last_expr,
                   returned, root>>

\* block_stmt::rule for a function's body: the opening brace.
FunctionBodyOpen ==
    /\ pc = "function_body"
    /\ IF At(input, pos) = "{"
       THEN /\ blocks' = <<<<>>>>
            /\ pos' = SkipWs(input, pos + 1)
            /\ pc' = "block"
       ELSE /\ pc' = "syntax_error"
            /\ UNCHANGED <<blocks, pos>>
    /\ UNCHANGED <<input, fn_declarator, functions, local_symbols, errored, diag,
                   next_decl, last_expr, returned, root>>

\* stmt::rule, first branch: a nested block_stmt opens.
BlockStmtOpen ==
    /\ pc = "block"
    /\ At(input, pos) = "{"
    /\ blocks' = Append(blocks, <<>>)
    /\ pos' = SkipWs(input, pos + 1)
    /\ UNCHANGED <<input, pc, fn_declarator, functions, local_symbols, errored,
                   diag, next_decl, last_expr, returned, root>>

\* block_stmt::value for a nested block: the closing brace ends the list and
\* the block_stmt becomes a statement of the enclosing block.
BlockStmtClose ==
    /\ pc = "block"
    /\ At(input, pos) = "}"
    /\ Len(blocks) > 1
    /\ blocks' = AppendStmt(SubSeq(blocks, 1, Len(blocks) - 1),
                            block_stmt(blocks[Len(blocks)]))
    /\ pos' = SkipWs(input, pos + 1)
    /\ UNCHANGED <<input, pc, fn_declarator, functions, local_symbols, errored,
                   diag, next_decl, last_expr, returned, root>>

\* The list as it would be if each item were put at its front.
push_back_Front(list, d) == <<d>> \o list

\* lexy::as_list<decl_list>: translation_unit's list gets each item at its end.
push_back(list, d) == Append(list, d)

\* CLAUF_TODO stops the process where it is reached.
CLAUF_TODO == "aborted"

\* Whether function_definition::value finds a function_declarator whose
\* child is a name_declarator.
names_function(d) == d.kind = "function" /\ d.child[1].kind = "name"

\* block_stmt::value for a function's body, then function_definition::value:
\* the function_decl of a declarator that names a function joins
\* translation_unit's list; any other declarator reaches CLAUF_TODO.
FunctionDefinitionValue ==
    /\ pc = "block"
    /\ At(input, pos) = "}"
    /\ Len(blocks) = 1
    /\ blocks' = <<>>
    /\ pos' = SkipWs(input, pos + 1)
    /\ IF names_function(fn_declarator[1])
       THEN /\ functions' = push_back(functions,
                                      function_decl(fn_declarator[1].child[1].name,
                                                    next_decl, block_stmt(blocks[1])))
            /\ next_decl' = next_decl + 1
            /\ pc' = "translation_unit"
       ELSE /\ pc' = CLAUF_TODO
            /\ UNCHANGED <<functions, next_decl>>
    /\ UNCHANGED <<input, fn_declarator, local_symbols, errored, diag, last_expr,
                   returned, root>>

\* declaration::value: the declarators are visited in order; a
\* name_declarator gives a variable_decl, a function_declarator reaches
\* CLAUF_TODO (in either of its branches).
RECURSIVE declaration_value(_, _)
declaration_value(ds, id) ==
    IF ds = <<>> THEN [todo |-> FALSE, decls |-> <<>>]
    ELSE IF Head(ds).kind = "function" THEN [todo |-> TRUE, decls |-> <<>>]
    ELSE LET rest == declaration_value(Tail(ds), id + 1)
         IN [todo |-> rest.todo,
             decls |-> <<variable_decl(Head(ds).name, id)>> \o rest.decls]

\* decl_stmt::value's loop: every declaration is bound with insert_or_shadow,
\* in order; duplicates lists the names that were bound already.
RECURSIVE bind_declarations(_, _)
bind_declarations(table, decls) ==
    IF decls = <<>> THEN [table |-> table, duplicates |-> <<>>]
    ELSE LET b == insert_or_shadow(table, Head(decls).name, Head(decls).id)
             rest == bind_declarations(b.table, Tail(decls))
         IN [table |-> rest.table,
             duplicates |-> (IF b.shadowed # 0 THEN <<Head(decls).name>> ELSE <<>>)
                            \o rest.duplicates]

DuplicateDiag(names) ==
    [i \in 1..Len(names) |->
        [msg |-> "duplicate local declaration", name |-> names[i]]]

\* stmt::rule, third branch: declaration::rule, declaration::value, then
\* decl_stmt::value.
DeclStmt ==
    /\ pc = "block"
    /\ At(input, pos) \in kw_builtin_types
    /\ LET l == declarator_list(input, SkipWs(input, pos + 1))
           v == declaration_value(l.decls, next_decl)
           b == bind_declarations(local_symbols, v.decls)
       IN IF ~(l.ok /\ At(input, l.pos) = ";")
          THEN /\ pc' = "syntax_error"
               /\ UNCHANGED <<pos, blocks, local_symbols, errored, diag, next_decl>>
          ELSE IF v.todo
          THEN /\ pc' = CLAUF_TODO
               /\ pos' = SkipWs(input, l.pos + 1)
               /\ next_decl' = next_decl + Len(v.decls)
               /\ UNCHANGED <<blocks, local_symbols, errored, diag>>
          ELSE /\ pc' = pc
               /\ pos' = SkipWs(input, l.pos + 1)
               /\ next_decl' = next_decl + Len(v.decls)
               /\ local_symbols' = b.table
               /\ errored' = (errored \/ b.duplicates # <<>>)
               /\ diag' = diag \o DuplicateDiag(b.duplicates)
               /\ blocks' = AppendStmt(blocks, decl_stmt(v.decls))
    /\ UNCHANGED <<input, fn_declarator, functions, last_expr, returned, root>>

\* The expression of a statement, from position p, and its semicolon
\* (builtin is "" for an expr_stmt): the identifier_expr callbacks run while
\* the expression is parsed, so their messages and the error flag stay also
\* when the statement then fails to parse.
ExprStatement(p, builtin) ==
    LET e == expr(input, p, local_symbols)
    IN /\ errored' = (errored \/ e.unknown # <<>>)
       /\ diag' = diag \o UnknownDiag(e.unknown)
       /\ IF e.ok
          THEN last_expr' = <<[from |-> p, to |-> e.pos, tree |-> e.tree[1]]>>
          ELSE UNCHANGED last_expr
       /\ IF e.ok /\ At(input, e.pos) = ";"
          THEN /\ blocks' = AppendStmt(blocks,
                                IF builtin = "" THEN expr_stmt(e.tree[1])
                                ELSE builtin_stmt(builtin, e.tree[1]))
               /\ pos' = SkipWs(input, e.pos + 1)
               /\ pc' = pc
          ELSE /\ pc' = "syntax_error"
               /\ UNCHANGED <<blocks, pos>>

\* stmt::rule, second branch: builtin_stmt.
BuiltinStmt ==
    /\ pc = "block"
    /\ At(input, pos) \in kw_builtin_stmts
    /\ ExprStatement(SkipWs(input, pos + 1), At(input, pos))
    /\ UNCHANGED <<input, fn_declarator, functions, local_symbols, next_decl,
                   returned, root>>

\* stmt::rule, the else branch: expr_stmt (also at the end of the input,
\* where it fails).
ExprStmt ==
    /\ pc = "block"
    /\ At(input, pos) \notin {"{", "}"} \cup kw_builtin_stmts \cup kw_builtin_types
    /\ ExprStatement(pos, "")
    /\ UNCHANGED <<input, fn_declarator, functions, local_symbols, next_decl,
                   returned, root>>

\* translation_unit::rule: the list ends at the end of the input.
EndOfInput ==
    /\ pc = "translation_unit"
    /\ pos > Len(input)
    /\ functions # <<>>
    /\ pc' = "parsed"
    /\ UNCHANGED <<input, pos, blocks, fn_declarator, functions, local_symbols,
                   errored, diag, next_decl, last_expr, returned, root>>

\* The root clauf::compile installs: translation_unit::value's node.
set_root(decls) == <<translation_unit(decls)>>

\* clauf::compile after lexy::parse: no AST when the parse failed or a
\* callback set errored; else the root is installed and the AST returned.
CompileReturn ==
    /\ pc \in {"parsed", "syntax_error"}
    /\ returned = "none"
    /\ IF pc = "syntax_error" \/ errored
       THEN /\ returned' = "nullopt"
            /\ UNCHANGED root
       ELSE /\ returned' = "ast"
            /\ root' = set_root(functions)
    /\ UNCHANGED <<input, pos, pc, blocks, fn_declarator, functions,
                   local_symbols, errored, diag, next_decl, last_expr>>

Next ==
    \/ FunctionDefinitionStart
    \/ FunctionBodyOpen
    \/ BlockStmtOpen
    \/ BlockStmtClose
    \/ FunctionDefinitionValue
    \/ DeclStmt
    \/ BuiltinStmt
    \/ ExprStmt
    \/ EndOfInput
    \/ CompileReturn

Spec == Init /\ [][Next]_vars

\* ------------------------------------------------------------------ claims

\* A step of DeclStmt on a declaration that parses: its declarators.
DeclarationAt(p) == declarator_list(input, SkipWs(input, p + 1))
ParsesDeclaration ==
    /\ pc = "block"
    /\ At(input, pos) \in kw_builtin_types
    /\ DeclarationAt(pos).ok
    /\ At(input, DeclarationAt(pos).pos) = ";"

\* The step that ends a function definition (its body's closing brace).
EndsFunctionDefinition == pc = "block" /\ At(input, pos) = "}" /\ Len(blocks) = 1

\* A function_declarator whose child is no name_declarator.
InvalidDeclarator(d) == d.kind = "function" /\ d.child[1].kind # "name"

\* C1: for every input, compile returns an AST exactly when the parse
\* succeeded and no semantic diagnostic was raised, and in every other case
\* it returns no AST and installs no root.  Stated of every run that has
\* ended, by a return or at a CLAUF_TODO.
C1_PresentIffValid ==
    (returned # "none" \/ pc = CLAUF_TODO) =>
        /\ (returned = "ast") <=> (pc = "parsed" /\ diag = <<>>)
        /\ returned # "ast" => (returned = "nullopt" /\ root = <<>>)

\* C2: an invalid declarator (a function_declarator over anything but a
\* name, in a declaration statement or a function definition; a function
\* definition whose declarator names no function) never stops the run: the
\* step that resolves it sets the error flag and parsing goes on.
C2_InvalidDeclaratorRecovers ==
    [][ /\ (ParsesDeclaration
            /\ \E i \in 1..Len(DeclarationAt(pos).decls) :
                   InvalidDeclarator(DeclarationAt(pos).decls[i]))
           => (pc' = "block" /\ errored')
        /\ (EndsFunctionDefinition /\ ~names_function(fn_declarator[1]))
           => (pc' = "translation_unit" /\ errored') ]_vars

\* The names (identifiers that are no keywords) of the input from p to q, in
\* source order.
NamesIn(p, q) == SelectSeq(SubSeq(input, p, q), name)

Range(f) == {f[i] : i \in DOMAIN f}

\* The declarations of a statement list, those of nested blocks included, in
\* source order.
RECURSIVE DeclsOfStmts(_)
DeclsOfStmts(ss) ==
    IF ss = <<>> THEN <<>>
    ELSE (IF Head(ss).kind = "decl_stmt" THEN Head(ss).decls
          ELSE IF Head(ss).kind = "block_stmt" THEN DeclsOfStmts(Head(ss).stmts)
          ELSE <<>>) \o DeclsOfStmts(Tail(ss))

\* The declarations made so far in the function being parsed.
FunctionDecls == DeclsOfStmts(Concat(blocks))

\* A step of DeclStmt that binds the declarations of a statement.
BindsDeclarations == ParsesDeclaration /\ pc' = "block"

\* C3: a declaration statement binds its names in declaration order; a name
\* already bound (before the statement or earlier in it) is reported as a
\* duplicate local declaration and sets the error flag, a new name does
\* neither; either way the newest declaration of a name is the one every
\* later lookup returns.
C3_DuplicateLastWins ==
    /\ [](pc = "block" =>
            \A n \in DOMAIN local_symbols :
                \E d \in Range(FunctionDecls) :
                    /\ d.name = n /\ d.id = local_symbols[n]
                    /\ \A e \in Range(FunctionDecls) : e.name = n => e.id <= d.id)
    /\ [][ BindsDeclarations =>
             LET ns == NamesIn(pos, pos' - 1)
                 IsDup(i) == \/ ns[i] \in DOMAIN local_symbols
                             \/ \E j \in 1..(i - 1) : ns[j] = ns[i]
                 dups == {i \in 1..Len(ns) : IsDup(i)}
                 new == SubSeq(diag', Len(diag) + 1, Len(diag'))
             IN /\ SubSeq(diag', 1, Len(diag)) = diag
                /\ Len(new) = Cardinality(dups)
                /\ \A k \in 1..Len(new) : new[k].msg = "duplicate local declaration"
                /\ {new[k].name : k \in 1..Len(new)} = {ns[i] : i \in dups}
                /\ errored' = (errored \/ dups # {})
                /\ \A i \in 1..Len(ns) :
                       (\A j \in (i + 1)..Len(ns) : ns[j] # ns[i])
                           => lookup(local_symbols', ns[i]) = next_decl + i - 1
                /\ \A n \in DOMAIN local_symbols :
                       n \notin Range(ns) => lookup(local_symbols', n) = local_symbols[n]
         ]_vars

\* A duplicate was reported and the symbol is bound to a declaration that is
\* not the function's first one.
C3_Witness ==
    /\ pc = "block"
    /\ \E k \in 1..Len(diag) :
           /\ diag[k].msg = "duplicate local declaration"
           /\ diag[k].name \in DOMAIN local_symbols
           /\ \E d \in Range(FunctionDecls) :
                  d.name = diag[k].name /\ d.id < local_symbols[diag[k].name]

\* The nodes of an expression tree.
RECURSIVE Nodes(_)
Nodes(t) == {t} \cup UNION {Nodes(t.kids[i]) : i \in DOMAIN t.kids}

\* A step of ExprStmt or BuiltinStmt, and where its expression starts.
ParsesExprStatement ==
    pc = "block" /\ At(input, pos) \notin {"{", "}"} \cup kw_builtin_types
ExprStart ==
    IF At(input, pos) \in kw_builtin_stmts THEN SkipWs(input, pos + 1) ELSE pos

\* A symbol table that binds every name of the input.
AllBound == [n \in {u \in Range(input) : name(u)} |-> 1]

\* C4: every identifier of an expression is looked up in the scope as it is
\* when the expression is parsed: a bound one gives a reference to its
\* declaration and leaves the error flag alone; an unbound one is reported
\* as an unknown identifier, sets the error flag and still gives a reference
\* node (with no declaration); whether the statement parses does not depend
\* on what is bound.
C4_IdentifierResolution ==
    [][ ParsesExprStatement =>
          /\ (pc' = "block") <=>
                 LET e == expr(input, ExprStart, AllBound)
                 IN e.ok /\ At(input, e.pos) = ";"
          /\ local_symbols' = local_symbols
          /\ pc' = "block" =>
               LET ns == NamesIn(ExprStart, pos' - 1)
                   unknown == {i \in 1..Len(ns) : ns[i] \notin DOMAIN local_symbols}
                   new == SubSeq(diag', Len(diag) + 1, Len(diag'))
                   ids == {n \in Nodes(last_expr'[1].tree) : n.kind = "identifier_expr"}
               IN /\ SubSeq(diag', 1, Len(diag)) = diag
                  /\ Len(new) = Cardinality(unknown)
                  /\ \A k \in 1..Len(new) : new[k].msg = "unknown identifier"
                  /\ {new[k].name : k \in 1..Len(new)} = {ns[i] : i \in unknown}
                  /\ errored' = (errored \/ unknown # {})
                  /\ {n.at : n \in ids}
                       = {i \in ExprStart..(pos' - 1) : name(input[i])}
                  /\ \A n \in ids :
                       /\ n.op = input[n.at]
                       /\ n.decl = lookup(local_symbols, n.op)
                       /\ (n.decl = 0) <=> (n.op \notin DOMAIN local_symbols)
        ]_vars

\* An unknown identifier was reported, the parse still reached the end of
\* the input, and compile returned no AST.
C4_Witness ==
    /\ pc = "parsed"
    /\ returned = "nullopt"
    /\ \E k \in 1..Len(diag) : diag[k].msg = "unknown identifier"

\* The assignments of an expression whose left operand is no identifier
\* reference.
InvalidTargets(t) ==
    {n \in Nodes(t) : n.kind = "assignment_expr" /\ n.kids[1].kind # "identifier_expr"}

\* C5: an assignment whose left operand is no identifier reference sets the
\* error flag, and compile then returns no AST.
C5_InvalidAssignmentTargetRejected ==
    (last_expr # <<>> /\ InvalidTargets(last_expr[1].tree) # {})
        => (errored /\ returned # "ast")

\* C6: the scope is emptied by the step that starts a function definition,
\* before any statement of its body, and by no other step; the braces of
\* blocks leave it alone.  So the bound names are at all times those of all
\* declarations made so far in the function, at any depth, and of no other
\* function.
C6_OneScopePerFunction ==
    /\ [](pc = "block" => DOMAIN local_symbols = {d.name : d \in Range(FunctionDecls)})
    /\ [][ /\ (pc = "translation_unit" /\ pc' = "function_body")
                => (local_symbols' = EmptyTable /\ blocks' = <<>>)
           /\ ~(pc = "translation_unit" /\ pc' = "function_body")
                => DOMAIN local_symbols \subseteq DOMAIN local_symbols'
           /\ (pc = "block" /\ At(input, pos) \in {"{", "}"})
                => local_symbols' = local_symbols
         ]_vars

\* A nested block has ended and a name declared in it is still bound.
C6_Witness ==
    /\ pc = "block"
    /\ Len(blocks) = 1
    /\ \E i \in 1..Len(blocks[1]) :
           /\ blocks[1][i].kind = "block_stmt"
           /\ \E d \in Range(DeclsOfStmts(blocks[1][i].stmts)) :
                  lookup(local_symbols, d.name) = d.id

\* A declarator the resolution has a declaration for.
Resolvable(d) == d.kind = "name" \/ names_function(d)

\* C9: every fully parsed declarator resolves to one declaration: a name (in
\* any parentheses) to a variable_decl, a function_declarator over a name to
\* a function_decl, in a declaration statement as in a function definition,
\* each declarator of a list to its own declaration, in list order.
C9_DeclaratorResolution ==
    [][ /\ (ParsesDeclaration
            /\ \A i \in 1..Len(DeclarationAt(pos).decls) :
                   Resolvable(DeclarationAt(pos).decls[i]))
           => /\ pc' = "block"
              /\ LET ds == DeclarationAt(pos).decls
                     st == blocks'[Len(blocks')][Len(blocks'[Len(blocks')])]
                 IN /\ st.kind = "decl_stmt"
                    /\ Len(st.decls) = Len(ds)
                    /\ \A i \in 1..Len(ds) :
                         IF ds[i].kind = "name"
                         THEN st.decls[i].kind = "variable_decl"
                              /\ st.decls[i].name = ds[i].name
                         ELSE st.decls[i].kind = "function_decl"
                              /\ st.decls[i].name = ds[i].child[1].name
        /\ (EndsFunctionDefinition /\ names_function(fn_declarator[1]))
           => /\ Len(functions') = Len(functions) + 1
              /\ functions'[Len(functions')].kind = "function_decl"
              /\ functions'[Len(functions')].name = fn_declarator[1].child[1].name
      ]_vars

\* The names at brace depth 0 of the input from position i on: in a valid
\* input, the names of its function definitions, in source order.
RECURSIVE NamesAtDepth0(_, _)
NamesAtDepth0(i, depth) ==
    IF i > Len(input) THEN <<>>
    ELSE IF input[i] = "{" THEN NamesAtDepth0(i + 1, depth + 1)
    ELSE IF input[i] = "}" THEN NamesAtDepth0(i + 1, IF depth > 0 THEN depth - 1 ELSE 0)
    ELSE (IF depth = 0 /\ name(input[i]) THEN <<input[i]>> ELSE <<>>)
         \o NamesAtDepth0(i + 1, depth)

\* C10: a returned AST's root is installed and owns one function_decl per
\* function definition of the source, in source order.
C10_RootOwnsFunctions ==
    returned = "ast" =>
        /\ Len(root) = 1
        /\ root[1].kind = "translation_unit"
        /\ root[1].decls = functions
        /\ [i \in 1..Len(root[1].decls) |-> root[1].decls[i].name] = NamesAtDepth0(1, 0)
        /\ \A i \in 1..Len(root[1].decls) : root[1].decls[i].kind = "function_decl"

\* An AST with two functions was returned.
C10_Witness == returned = "ast" /\ Len(root) = 1 /\ Len(root[1].decls) = 2

\* The precedence table: the infix levels from the lowest to the highest,
\* each with its associativity and its operators (literal, node kind, tag);
\* above them the prefix operators, then the atom.
TOp(lit, k, tag) == [lit |-> lit, kind |-> k, tag |-> tag]

PrecedenceTable ==
    << [assoc |-> "right", ops |-> {TOp(<<",">>, "sequenced_binary_expr", "comma")}],
       [assoc |-> "right", ops |-> {TOp(<<"=">>, "assignment_expr", "none")}],
       [assoc |-> "right", ops |-> {TOp(<<"?">>, "conditional_expr", "conditional")}],
       [assoc |-> "left", ops |-> {TOp(<<"|", "|">>, "sequenced_binary_expr", "lor")}],
       [assoc |-> "left", ops |-> {TOp(<<"&", "&">>, "sequenced_binary_expr", "land")}],
       [assoc |-> "left", ops |-> {TOp(<<"|">>, "binary_expr", "bor")}],
       [assoc |-> "left", ops |-> {TOp(<<"^">>, "binary_expr", "bxor")}],
       [assoc |-> "left", ops |-> {TOp(<<"&">>, "binary_expr", "band")}],
       [assoc |-> "left", ops |-> {TOp(<<"=", "=">>, "binary_expr", "eq"),
                                   TOp(<<"!", "=">>, "binary_expr", "ne")}],
       [assoc |-> "left", ops |-> {TOp(<<"<">>, "binary_expr", "lt"),
                                   TOp(<<"<", "=">>, "binary_expr", "le"),
                                   TOp(<<">">>, "binary_expr", "gt"),
                                   TOp(<<">", "=">>, "binary_expr", "ge")}],
       [assoc |-> "left", ops |-> {TOp(<<"<", "<">>, "binary_expr", "shl"),
                                   TOp(<<">", ">">>, "binary_expr", "shr")}],
       [assoc |-> "left", ops |-> {TOp(<<"+">>, "binary_expr", "add"),
                                   TOp(<<"-">>, "binary_expr", "sub")}],
       [assoc |-> "left", ops |-> {TOp(<<"*">>, "binary_expr", "mul"),
                                   TOp(<<"/">>, "binary_expr", "div"),
                                   TOp(<<"%">>, "binary_expr", "rem")}] >>

TablePrefix ==
    {TOp(<<"+">>, "unary_expr", "plus"), TOp(<<"-">>, "unary_expr", "neg"),
     TOp(<<"~">>, "unary_expr", "bnot"), TOp(<<"!">>, "unary_expr", "lnot")}

TableInfix == UNION {PrecedenceTable[i].ops : i \in DOMAIN PrecedenceTable}

\* The infix operator token at p by maximal munch: the longest literal of the
\* table that starts at p (lit <<>> when none does).
TableToken(s, p) ==
    LET ms == {o \in TableInfix : LitAt(s, p, o.lit)}
    IN IF ms = {} THEN TOp(<<>>, "", "")
       ELSE CHOOSE o \in ms : \A o2 \in ms : Len(o2.lit) <= Len(o.lit)

TFail(p) == [ok |-> FALSE, pos |-> p, tree |-> <<>>]
TOk(p, t) == [ok |-> TRUE, pos |-> p, tree |-> <<t>>]

RECURSIVE TableLevel(_, _, _, _)
RECURSIVE TableLeft(_, _, _, _)
RECURSIVE TableUnary(_, _, _)

\* unary := prefix-op unary | atom;
\* atom := "(" expression ")" | identifier | integer.
TableUnary(s, p, table) ==
    IF \E o \in TablePrefix : o.lit = <<At(s, p)>>
    THEN LET o == CHOOSE o \in TablePrefix : o.lit = <<At(s, p)>>
             r == TableUnary(s, SkipWs(s, p + 1), table)
         IN IF ~r.ok THEN r ELSE TOk(r.pos, ExprNode(o.kind, o.tag, p, 0, r.tree))
    ELSE IF At(s, p) = "("
    THEN LET r == TableLevel(s, SkipWs(s, p + 1), table, 1)
         IN IF r.ok /\ At(s, r.pos) = ")" THEN TOk(SkipWs(s, r.pos + 1), r.tree[1])
            ELSE TFail(r.pos)
    ELSE IF name(At(s, p))
    THEN TOk(SkipWs(s, p + 1),
             ExprNode("identifier_expr", At(s, p), p, lookup(table, At(s, p)), <<>>))
    ELSE IF At(s, p) \in IntegerWords
    THEN TOk(SkipWs(s, p + 1), ExprNode("integer_constant_expr", At(s, p), p, 0, <<>>))
    ELSE TFail(p)

\* A left-associative level after its first operand l:
\* level := level op next | next.
TableLeft(s, l, table, i) ==
    LET o == TableToken(s, l.pos)
    IN IF o \notin PrecedenceTable[i].ops THEN l
       ELSE LET r == TableLevel(s, SkipWs(s, l.pos + Len(o.lit)), table, i + 1)
            IN IF ~r.ok THEN r
               ELSE TableLeft(s, TOk(r.pos, ExprNode(o.kind, o.tag, l.pos, 0,
                                                     l.tree \o r.tree)), table, i)

\* Level i of the table; a right-associative level is
\* level := next op level | next, the conditional one
\* level := next "?" expression ":" level | next.
TableLevel(s, p, table, i) ==
    IF i > Len(PrecedenceTable) THEN TableUnary(s, p, table)
    ELSE LET l == TableLevel(s, p, table, i + 1)
             o == TableToken(s, l.pos)
             q == SkipWs(s, l.pos + Len(o.lit))
         IN IF ~l.ok THEN l
            ELSE IF PrecedenceTable[i].assoc = "left" THEN TableLeft(s, l, table, i)
            ELSE IF o \notin PrecedenceTable[i].ops THEN l
            ELSE IF o.tag = "conditional"
            THEN LET m == TableLevel(s, q, table, 1)
                     r == TableLevel(s, SkipWs(s, m.pos + 1), table, i)
                 IN IF ~m.ok THEN m
                    ELSE IF At(s, m.pos) # ":" THEN TFail(m.pos)
                    ELSE IF ~r.ok THEN r
                    ELSE TOk(r.pos, ExprNode(o.kind, o.tag, l.pos, 0,
                                             l.tree \o m.tree \o r.tree))
            ELSE LET r == TableLevel(s, q, table, i)
                 IN IF ~r.ok THEN r
                    ELSE TOk(r.pos, ExprNode(o.kind, o.tag, l.pos, 0, l.tree \o r.tree))

\* The step parsed an expression (statements are parsed at increasing
\* positions, so a new expression differs from the last one).
ParsedExpr == last_expr' # last_expr

\* C7: the tree grammar::expr builds for an expression is the tree the
\* precedence table gives it, with the table's associativity at every level;
\* an expression the table gives no tree is not parsed.
C7_PrecedenceTable ==
    [][ ParsesExprStatement =>
          LET r == TableLevel(input, ExprStart, local_symbols, 1)
          IN /\ r.ok <=> ParsedExpr
             /\ r.ok => last_expr' =
                          <<[from |-> ExprStart, to |-> r.pos, tree |-> r.tree[1]]>>
      ]_vars

\* a + b * 1 was parsed as a + (b * 1).
C7_Witness ==
    /\ last_expr # <<>>
    /\ last_expr[1].tree.op = "add"
    /\ last_expr[1].tree.kids[1].kind = "identifier_expr"
    /\ last_expr[1].tree.kids[2].op = "mul"

\* The characters a relational or shift node stands for at its place.
RelShiftLit ==
    [lt |-> <<"<">>, le |-> <<"<", "=">>, gt |-> <<">">>, ge |-> <<">", "=">>,
     shl |-> <<"<", "<">>, shr |-> <<">", ">">>]

\* The text from p is word (op word)* ";" with op the infix operator token
\* at its place by maximal munch (the conditional operator excluded).
RECURSIVE IsChain(_)
IsChain(p) ==
    /\ IsWord(At(input, p))
    /\ At(input, p) \notin kw_builtin_types \cup kw_builtin_stmts
    /\ LET q == SkipWs(input, p + 1)
           o == TableToken(input, q)
       IN \/ At(input, q) = ";"
          \/ /\ o.lit # <<>>
             /\ o.tag # "conditional"
             /\ IsChain(SkipWs(input, q + Len(o.lit)))

\* The operator tokens of the chain from p: their places and tags.
RECURSIVE ChainOps(_)
ChainOps(p) ==
    LET q == SkipWs(input, p + 1)
        o == TableToken(input, q)
    IN IF At(input, q) = ";" THEN {}
       ELSE {[at |-> q, tag |-> o.tag]} \cup ChainOps(SkipWs(input, q + Len(o.lit)))

\* C8: a relational < or > node is never built where the next character is
\* the same character (or =): there the two-character token is the operator;
\* every < and > of a parsed expression belongs to exactly the operator that
\* maximal munch gives, and a chain of operands and operator tokens always
\* parses, with those tokens as its operators.
C8_LongestOperator ==
    [][ ParsesExprStatement =>
          /\ ParsedExpr =>
               LET e == last_expr'[1]
                   rs == {n \in Nodes(e.tree) :
                              n.kind = "binary_expr" /\ n.op \in DOMAIN RelShiftLit}
               IN /\ \A n \in rs :
                        /\ LitAt(input, n.at, RelShiftLit[n.op])
                        /\ n.op \in {"lt", "gt"} =>
                               At(input, n.at + 1) \notin {input[n.at], "="}
                  /\ \A p \in e.from..(e.to - 1) :
                        input[p] \in {"<", ">"} =>
                            \E n \in rs : n.at = p \/ (n.at = p - 1 /\ n.op \in {"shl", "shr"})
          /\ IsChain(ExprStart) =>
               /\ ParsedExpr
               /\ pc' = "block"
               /\ {[at |-> n.at, tag |-> n.op] : n \in {m \in Nodes(last_expr'[1].tree) : m.kids # <<>>}}
                    = ChainOps(ExprStart)
      ]_vars

\* a < b < 1 was parsed as (a < b) < 1.
C8_Witness ==
    /\ last_expr # <<>>
    /\ last_expr[1].tree.op = "lt"
    /\ last_expr[1].tree.kids[1].op = "lt"
    /\ last_expr[1].tree.kids[2].kind = "integer_constant_expr"

====
